---- MODULE Spec2Model ----
(***************************************************************************)
(* A model of lib/repository/bolt.go: the boltdb-backed coreRepository of  *)
(* prchecklist.  Callers (goroutines) invoke AddUser, GetUsers, GetChecks, *)
(* AddCheck and RemoveCheck concurrently; every call runs its closure in   *)
(* one bolt transaction (db.Update: the single writer, db.View: a          *)
(* snapshot reader).                                                       *)
(***************************************************************************)
EXTENDS Integers, Sequences, FiniteSets, TLC

(***************************************************************************)
(* Bounds of the model.                                                    *)
(***************************************************************************)
\* number of calls the callers issue in one behaviour
MaxCalls == 3
\* the calling goroutines
Procs == {"p1", "p2"}
\* user identifiers (GitHubUser.ID)
UserIDs == {1, 12}
\* login names a user record may carry
Logins == {"x", "y"}
\* the user records the callers upsert: two records of one identifier, one
\* of the other
UpsertArgs ==
    {[ID |-> 1, Login |-> "x"], [ID |-> 1, Login |-> "y"],
     [ID |-> 12, Login |-> "x"]}
\* the userIDs slices the callers fetch: empty, single, both orders, a
\* duplicate
IDLists == {<<>>, <<12>>, <<1, 12>>, <<12, 1>>, <<1, 1>>}
\* checklist item keys (the key argument of AddCheck / RemoveCheck)
ItemKeys == {"a", "b"}

(***************************************************************************)
(* Values of the Go program.                                               *)
(***************************************************************************)
\* error values: the kind of the failure and the operation name that
\* errors.Wrap put in front of it ("" when the error is returned unwrapped)
Err(kind) == [kind |-> kind, op |-> ""]
\* a nil error
NoErr == Err("nil")
\* errors.Wrap(err, op): nil stays nil
Wrap(err, op) == IF err = NoErr THEN NoErr ELSE [err EXCEPT !.op = op]

\* prchecklist.GitHubUser
GitHubUser == [ID : UserIDs, Login : Logins]

\* prchecklist.ChecklistRef values the callers use: two valid references and
\* one that misses a required field
RefA == [Owner |-> "o", Repo |-> "r", Number |-> 1, Stage |-> "qa"]
RefB == [Owner |-> "o", Repo |-> "r", Number |-> 12, Stage |-> "qa"]
RefBad == [Owner |-> "o", Repo |-> "r", Number |-> 1, Stage |-> ""]
Refs == {RefA, RefB, RefBad}
\* the (reference, item key, user ID) arguments of AddCheck and RemoveCheck:
\* every triple on one valid reference, one triple on the other, one on the
\* invalid one
CheckArgs ==
    ({RefA} \X ItemKeys \X UserIDs) \cup {<<RefB, "a", 1>>, <<RefBad, "a", 1>>}

\* strconv.FormatInt(n, 10) for n >= 0: the decimal digits, most significant
\* first
RECURSIVE FormatInt(_)
FormatInt(n) ==
    IF n < 10 THEN <<n>> ELSE Append(FormatInt(n \div 10), n % 10)

\* clRef.Validate(): nil iff the required fields are present and the number
\* is well formed
Validate(clRef) ==
    /\ clRef.Owner # ""
    /\ clRef.Repo # ""
    /\ clRef.Number > 0
    /\ clRef.Stage # ""

\* clRef.String(): the canonical storage key of a reference
String(clRef) ==
    <<clRef.Owner, clRef.Repo, FormatInt(clRef.Number), clRef.Stage>>

\* the key of a user record in the users bucket
UserKey(id) == FormatInt(id)

UserKeys == {UserKey(id) : id \in UserIDs}
CheckKeys == {String(r) : r \in Refs}

(***************************************************************************)
(* []byte values: nil, a JSON text, or bytes that are no JSON text of the  *)
(* expected shape.  A JSON object is the sequence of its members.          *)
(***************************************************************************)
NilBytes == [fmt |-> "nil", members |-> <<>>]
BadBytes == [fmt |-> "bad", members |-> <<>>]
Json(members) == [fmt |-> "json", members |-> members]

(***************************************************************************)
(* prchecklist.Checks: a Go map from item key to the list of the IDs of    *)
(* the users who checked the item; a set of <<key, list>> pairs with one   *)
(* pair per key, or the nil map.                                           *)
(***************************************************************************)
NilChecks == [nil |-> TRUE, m |-> {}]
EmptyChecks == [nil |-> FALSE, m |-> {}]
MkChecks(m) == [nil |-> FALSE, m |-> m]

\* the keys of a map
Keys(m) == {e[1] : e \in m}

\* c[key] of a Go map: the stored list, or the zero value (an empty list)
Lookup(c, key) ==
    IF key \in Keys(c.m) THEN (CHOOSE e \in c.m : e[1] = key)[2] ELSE <<>>

\* the elements of a list
Elems(s) == {s[i] : i \in 1..Len(s)}

\* c[key] = list
Store(c, key, list) ==
    MkChecks({e \in c.m : e[1] # key} \cup {<<key, list>>})

\* list without its elements equal to id
RECURSIVE Without(_, _)
Without(list, id) ==
    IF list = <<>> THEN <<>>
    ELSE IF Head(list) = id THEN Without(Tail(list), id)
    ELSE <<Head(list)>> \o Without(Tail(list), id)

\* an Add that does not look for the user in the item's list
AddChangesAlways(c, key, id) == TRUE

\* checks.Add(key, user): FALSE and no change when the user already checked
\* the item, else the user's ID is appended to the item's list
AddChanges(c, key, id) == id \notin Elems(Lookup(c, key))
Add(c, key, id) ==
    IF AddChanges(c, key, id)
    THEN Store(c, key, Append(Lookup(c, key), id))
    ELSE c

\* checks.Remove(key, user): FALSE and no change when the user did not check
\* the item, else the user's ID is taken out of the item's list
RemoveChanges(c, key, id) == id \in Elems(Lookup(c, key))
Remove(c, key, id) ==
    IF RemoveChanges(c, key, id)
    THEN Store(c, key, Without(Lookup(c, key), id))
    ELSE c

(***************************************************************************)
(* encoding/json.                                                          *)
(***************************************************************************)
\* the byte order of the item keys
KeyRank(k) == IF k = "a" THEN 1 ELSE 2

\* the pairs of a map as a sequence in increasing key order
RECURSIVE SortedMembers(_)
SortedMembers(m) ==
    IF m = {} THEN <<>>
    ELSE LET first == CHOOSE e \in m :
                        \A f \in m : KeyRank(e[1]) <= KeyRank(f[1])
         IN <<first>> \o SortedMembers(m \ {first})

\* json.Marshal(&checks) of a non-nil map: an object whose members are the
\* map's entries sorted by key
MarshalChecks(c) == Json(SortedMembers(c.m))

\* json.Unmarshal(data, &checks) of a JSON object: the map of its members
UnmarshalOK(data) == data.fmt = "json"
UnmarshalChecks(data) ==
    MkChecks({data.members[i] : i \in 1..Len(data.members)})

\* json.Marshal(user): the fields in declaration order
MarshalUser(user) == Json(<< <<"ID", user.ID>>, <<"Login", user.Login>> >>)

\* json.Unmarshal(buf, &user)
UnmarshalUser(buf) ==
    [ID |-> buf.members[1][2], Login |-> buf.members[2][2]]

(***************************************************************************)
(* The store.                                                              *)
(***************************************************************************)
VARIABLES
    db,      \* the committed buckets: what a transaction begun now reads
    writer,  \* the goroutine holding bolt's writer lock, or "none"
    pc,      \* where each goroutine is in its call
    call,    \* the call each goroutine is in, with its arguments
    tx,      \* each goroutine's transaction: its snapshot and working pages
    res,     \* the variables each call returns (err, checks, users)
    nCalls,  \* calls issued so far
    refdb,   \* reference model: the committed calls applied one at a time
    seen,    \* what db held for a GetChecks / GetUsers while it is in progress
    lastOn,  \* the last Add/RemoveCheck committed on each checks key
    lastUp,  \* the user record last committed by AddUser for each ID
    fileLock \* who holds the exclusive lock bolt.Open takes on the file

vars == <<db, writer, pc, call, tx, res, nCalls, refdb, seen, lastOn, lastUp, fileLock>>

\* boltBucketNameUsers, boltBucketNameChecks
BucketNames == {"users", "checks"}

\* both buckets as NewBoltCore leaves them in a new file: present and empty
EmptyDB ==
    [buckets |-> BucketNames,
     users |-> [k \in UserKeys |-> NilBytes],
     checks |-> [k \in CheckKeys |-> NilBytes]]

\* bucket.Get(key): the value, nil when the key is absent
Get(bucket, key) == bucket[key]

\* a Put that deletes the key of a Checks in which nobody is left
PutDeletesEmpty(bucket, key, value) ==
    IF /\ key \in CheckKeys
       /\ \A i \in 1..Len(value.members) : value.members[i][2] = <<>>
    THEN [bucket EXCEPT ![key] = NilBytes]
    ELSE [bucket EXCEPT ![key] = value]

\* a Put that inserts and never overwrites
PutIfAbsent(bucket, key, value) ==
    IF bucket[key] = NilBytes THEN [bucket EXCEPT ![key] = value] ELSE bucket

\* bucket.Put(key, value)
Put(bucket, key, value) == [bucket EXCEPT ![key] = value]

NoCall == [op |-> "none"]
NoTx == [open |-> FALSE, snap |-> EmptyDB, work |-> EmptyDB, puts |-> 0]
NoWrite == [op |-> "none", key |-> "", id |-> 0]
NoUser == [ID |-> 0, Login |-> ""]
\* err, checks, users and handle (the repository NewBoltCore returns, if
\* any) are the variables a call returns; the other fields
\* record what its transaction did: whether one was opened, the buckets
\* committed when it began (pre) and when it ended (post), its Put calls,
\* and the last Add/RemoveCheck committed on its key before it
NoRes ==
    [err |-> NoErr, checks |-> NilChecks, users |-> {}, handle |-> FALSE,
     opened |-> FALSE, puts |-> 0, pre |-> EmptyDB, post |-> EmptyDB,
     prev |-> NoWrite, prevUsers |-> [id \in UserIDs |-> NoUser]]

Init ==
    /\ db = EmptyDB
    /\ writer = "none"
    /\ pc = [p \in Procs |-> "idle"]
    /\ call = [p \in Procs |-> NoCall]
    /\ tx = [p \in Procs |-> NoTx]
    /\ res = [p \in Procs |-> NoRes]
    /\ nCalls = 0
    /\ refdb = [k \in CheckKeys |-> [i \in ItemKeys |-> {}]]
    /\ seen = [p \in Procs |-> {}]
    /\ lastOn = [k \in CheckKeys |-> NoWrite]
    /\ lastUp = [id \in UserIDs |-> NoUser]
    /\ fileLock = "owner"

(***************************************************************************)
(* Function entry.  A call with a reference validates it before anything   *)
(* else and returns the validation error at once.                          *)
(***************************************************************************)
\* the calls issued after one more; a negative number stands for callers
\* whose calls are not counted and never run out
Count(n) == IF n < 0 THEN n ELSE n + 1

Enter(p, c) ==
    /\ pc[p] = "idle"
    /\ nCalls < MaxCalls
    /\ nCalls' = Count(nCalls)
    /\ call' = [call EXCEPT ![p] = c]
    /\ res' = [res EXCEPT ![p] = NoRes]
    /\ UNCHANGED <<db, writer, tx, refdb, lastOn, lastUp, fileLock>>

\* a call that goes on to its transaction without validating the reference
EnterUnchecked(p, c) ==
    /\ Enter(p, c)
    /\ pc' = [pc EXCEPT ![p] = "valid"]

\* the clRef.Validate() check at the head of GetChecks, AddCheck, RemoveCheck
EnterChecked(p, c) ==
    /\ pc[p] = "idle"
    /\ nCalls < MaxCalls
    /\ nCalls' = Count(nCalls)
    /\ call' = [call EXCEPT ![p] = c]
    /\ IF Validate(c.ref)
       THEN /\ pc' = [pc EXCEPT ![p] = "valid"]
            /\ res' = [res EXCEPT ![p] = NoRes]
       ELSE /\ pc' = [pc EXCEPT ![p] = "ret"]
            /\ res' = [res EXCEPT ![p] =
                           [NoRes EXCEPT !.err = Err("InvalidReference")]]
    /\ UNCHANGED <<db, writer, tx, refdb, lastOn, lastUp, fileLock>>

AddUserCall(p, user) ==
    /\ Enter(p, [op |-> "AddUser", user |-> user])
    /\ pc' = [pc EXCEPT ![p] = "valid"]
    /\ UNCHANGED seen

GetUsersCall(p, userIDs) ==
    /\ Enter(p, [op |-> "GetUsers", ids |-> userIDs])
    /\ pc' = [pc EXCEPT ![p] = "valid"]
    /\ seen' = [seen EXCEPT ![p] = {db.users}]

GetChecksCall(p, clRef) ==
    /\ EnterChecked(p, [op |-> "GetChecks", ref |-> clRef])
    /\ seen' = [seen EXCEPT ![p] = {Get(db.checks, String(clRef))}]

AddCheckCall(p, clRef, key, id) ==
    /\ EnterChecked(p, [op |-> "AddCheck", ref |-> clRef, key |-> key,
                        id |-> id])
    /\ UNCHANGED seen

RemoveCheckCall(p, clRef, key, id) ==
    /\ EnterChecked(p, [op |-> "RemoveCheck", ref |-> clRef, key |-> key,
                        id |-> id])
    /\ UNCHANGED seen

(***************************************************************************)
(* bolt transactions.  db.Update takes the writer lock (waiting for it),   *)
(* runs the closure on private pages and commits them when the closure     *)
(* returns nil, else rolls back.  db.View runs the closure on the pages    *)
(* committed when it began.                                                *)
(***************************************************************************)
IsUpdate(c) == c.op \in {"NewBoltCore", "AddUser", "AddCheck", "RemoveCheck"}
IsView(c) == c.op \in {"GetUsers", "GetChecks"}

\* the last Add/RemoveCheck committed on the key of call c
PrevOn(c) ==
    IF c.op \in {"GetChecks", "AddCheck", "RemoveCheck"}
    THEN lastOn[String(c.ref)]
    ELSE NoWrite

\* a writable transaction that does not wait for the writer lock
WriterNeverWaits == TRUE

\* the writer lock is free
WriterFree == writer = "none"

\* r.db.Update( : begin the writable transaction
BeginUpdate(p) ==
    /\ pc[p] = "valid"
    /\ IsUpdate(call[p])
    /\ WriterFree
    /\ writer' = p
    /\ tx' = [tx EXCEPT ![p] = [open |-> TRUE, snap |-> db, work |-> db,
                                puts |-> 0]]
    /\ res' = [res EXCEPT ![p].opened = TRUE, ![p].pre = db,
                          ![p].prev = PrevOn(call[p]),
                          ![p].prevUsers = lastUp]
    /\ pc' = [pc EXCEPT ![p] = "intx"]
    /\ UNCHANGED <<db, call, nCalls, refdb, seen, lastOn, lastUp, fileLock>>

\* a read-only transaction that waits until no writable transaction is open
BeginViewWaits(p) ==
    /\ pc[p] = "valid"
    /\ IsView(call[p])
    /\ writer = "none"
    /\ tx' = [tx EXCEPT ![p] = [open |-> TRUE, snap |-> db, work |-> db,
                                puts |-> 0]]
    /\ res' = [res EXCEPT ![p].opened = TRUE, ![p].pre = db,
                          ![p].prev = PrevOn(call[p]),
                          ![p].prevUsers = lastUp]
    /\ pc' = [pc EXCEPT ![p] = "intx"]
    /\ UNCHANGED <<db, writer, call, nCalls, refdb, seen, lastOn, lastUp, fileLock>>

\* r.db.View( : begin the read-only transaction
BeginView(p) ==
    /\ pc[p] = "valid"
    /\ IsView(call[p])
    /\ tx' = [tx EXCEPT ![p] = [open |-> TRUE, snap |-> db, work |-> db,
                                puts |-> 0]]
    /\ res' = [res EXCEPT ![p].opened = TRUE, ![p].pre = db,
                          ![p].prev = PrevOn(call[p]),
                          ![p].prevUsers = lastUp]
    /\ pc' = [pc EXCEPT ![p] = "intx"]
    /\ UNCHANGED <<db, writer, call, nCalls, refdb, seen, lastOn, lastUp, fileLock>>

\* a read-only transaction that reads the pages of the open writable
\* transaction
ViewPagesDirty(p) == IF writer # "none" THEN tx[writer].work ELSE tx[p].snap

\* lookups that do not share one transaction: the record of ID 1 is read
\* from the pages committed when the call began, the others from those
\* committed now
ViewPagesMixed(p) ==
    [tx[p].snap EXCEPT
        !.users = [k \in UserKeys |->
                      IF k = UserKey(1) THEN tx[p].snap.users[k]
                      ELSE db.users[k]]]

\* the pages a read-only transaction reads: those committed when it began
ViewPages(p) == tx[p].snap

\* the pages a writable transaction reads and writes: its own
UpdatePages(p) == tx[p].work

(***************************************************************************)
(* The closures.                                                           *)
(***************************************************************************)
\* the closure of AddUser
AddUserBody(p) ==
    /\ pc[p] = "intx"
    /\ call[p].op = "AddUser"
    /\ LET usersBucket == UpdatePages(p).users
           buf == MarshalUser(call[p].user)
           key == UserKey(call[p].user.ID)
       IN tx' = [tx EXCEPT ![p].work.users = Put(usersBucket, key, buf),
                           ![p].puts = @ + 1]
    /\ pc' = [pc EXCEPT ![p] = "fnret"]
    /\ UNCHANGED <<db, writer, call, res, nCalls, refdb, seen, lastOn, lastUp, fileLock>>

\* an end of db.View that returns with the read-only transaction still open
EndViewLeaks(p) ==
    /\ tx' = tx
    /\ pc' = [pc EXCEPT ![p] = "ret"]
    /\ UNCHANGED <<db, writer, call, nCalls, refdb, seen, lastOn, lastUp, fileLock>>

\* the end of db.View, right after the closure: the read-only transaction
\* is rolled back and the call returns
EndView(p) ==
    /\ tx' = [tx EXCEPT ![p] = NoTx]
    /\ pc' = [pc EXCEPT ![p] = "ret"]
    /\ UNCHANGED <<db, writer, call, nCalls, refdb, seen, lastOn, lastUp, fileLock>>

\* a loop that returns after its first identifier
ScanUsersFirstOnly(usersBucket, userIDs, i, users) ==
    IF userIDs = <<>> THEN [users |-> users, err |-> NoErr]
    ELSE LET id == userIDs[1]
             buf == Get(usersBucket, UserKey(id))
         IN IF buf = NilBytes
            THEN [users |-> users, err |-> Err("NotFound")]
            ELSE [users |-> {<<id, UnmarshalUser(buf)>>}, err |-> NoErr]

\* the loop of GetUsers over userIDs[i..]: users is filled until an
\* identifier has no record or a record fails to decode
RECURSIVE ScanUsers(_, _, _, _)
ScanUsers(usersBucket, userIDs, i, users) ==
    IF i > Len(userIDs) THEN [users |-> users, err |-> NoErr]
    ELSE LET id == userIDs[i]
             buf == Get(usersBucket, UserKey(id))
         IN IF buf = NilBytes
            THEN [users |-> users, err |-> Err("NotFound")]
            ELSE IF buf.fmt # "json"
            THEN [users |-> users, err |-> Err("Corruption")]
            ELSE ScanUsers(usersBucket, userIDs, i + 1,
                           {e \in users : e[1] # id}
                               \cup {<<id, UnmarshalUser(buf)>>})

\* the closure of GetUsers
GetUsersBody(p) ==
    /\ pc[p] = "intx"
    /\ call[p].op = "GetUsers"
    /\ LET r == ScanUsers(ViewPages(p).users, call[p].ids, 1, {})
       IN res' = [res EXCEPT ![p].users = r.users,
                             ![p].err = Wrap(r.err, "GetUsers")]
    /\ EndView(p)

\* a GetChecks that decodes whatever Get returned
PresentAlways(data) == TRUE

\* if data != nil
Present(data) == data # NilBytes

\* the closure of GetChecks
GetChecksBody(p) ==
    /\ pc[p] = "intx"
    /\ call[p].op = "GetChecks"
    /\ LET checksBucket == ViewPages(p).checks
           data == Get(checksBucket, String(call[p].ref))
       IN res' = [res EXCEPT
                    ![p].checks = IF Present(data) /\ UnmarshalOK(data)
                                  THEN UnmarshalChecks(data)
                                  ELSE NilChecks,
                    ![p].err = IF Present(data) /\ ~UnmarshalOK(data)
                               THEN Wrap(Err("Corruption"), "GetChecks")
                               ELSE NoErr]
    /\ EndView(p)

\* a closure that starts from an empty Checks whatever is stored
LoadedFresh(data) == EmptyChecks

\* the read-decode part of the closures of AddCheck and RemoveCheck: the
\* stored Checks, an empty one when the key is absent
Loaded(data) ==
    LET checks == IF data # NilBytes THEN UnmarshalChecks(data) ELSE NilChecks
    IN IF checks = NilChecks THEN EmptyChecks ELSE checks

\* an AddCheck that writes back whatever Add reports
AddNeverReturnsEarly(checks, key, id) == FALSE

\* a RemoveCheck that writes back whatever Remove reports
RemoveNeverReturnsEarly(checks, key, id) == FALSE

\* an early return that reports the no-op as an error value
EarlyReturnUnchanged == Err("Unchanged")

\* the value the closure returns when Add / Remove reported no change:
\* return nil
EarlyReturn == NoErr

\* if checks.Add(key, user) == false { return nil }
AddReturnsEarly(checks, key, id) == ~AddChanges(checks, key, id)

\* if checks.Remove(key, user) == false { return nil }
RemoveReturnsEarly(checks, key, id) == ~RemoveChanges(checks, key, id)

\* the closure of AddCheck
AddCheckBody(p) ==
    /\ pc[p] = "intx"
    /\ call[p].op = "AddCheck"
    /\ LET checksBucket == UpdatePages(p).checks
           dbKey == String(call[p].ref)
           data == Get(checksBucket, dbKey)
       IN IF data # NilBytes /\ ~UnmarshalOK(data)
          THEN /\ res' = [res EXCEPT ![p].err = Err("Corruption")]
               /\ tx' = tx
          ELSE LET checks == Loaded(data)
               IN IF AddReturnsEarly(checks, call[p].key, call[p].id)
                  THEN /\ res' = [res EXCEPT ![p].err = EarlyReturn]
                       /\ tx' = tx
                  ELSE /\ tx' = [tx EXCEPT
                               ![p].work.checks =
                                   Put(checksBucket, dbKey,
                                       MarshalChecks(Add(checks, call[p].key,
                                                         call[p].id))),
                               ![p].puts = @ + 1]
                       /\ res' = res
    /\ pc' = [pc EXCEPT ![p] = "fnret"]
    /\ UNCHANGED <<db, writer, call, nCalls, refdb, seen, lastOn, lastUp, fileLock>>

\* the closure of RemoveCheck
RemoveCheckBody(p) ==
    /\ pc[p] = "intx"
    /\ call[p].op = "RemoveCheck"
    /\ LET checksBucket == UpdatePages(p).checks
           dbKey == String(call[p].ref)
           data == Get(checksBucket, dbKey)
       IN IF data # NilBytes /\ ~UnmarshalOK(data)
          THEN /\ res' = [res EXCEPT ![p].err = Err("Corruption")]
               /\ tx' = tx
          ELSE LET checks == Loaded(data)
               IN IF RemoveReturnsEarly(checks, call[p].key, call[p].id)
                  THEN /\ res' = [res EXCEPT ![p].err = EarlyReturn]
                       /\ tx' = tx
                  ELSE /\ tx' = [tx EXCEPT
                               ![p].work.checks =
                                   Put(checksBucket, dbKey,
                                       MarshalChecks(Remove(checks,
                                                            call[p].key,
                                                            call[p].id))),
                               ![p].puts = @ + 1]
                       /\ res' = res
    /\ pc' = [pc EXCEPT ![p] = "fnret"]
    /\ UNCHANGED <<db, writer, call, nCalls, refdb, seen, lastOn, lastUp, fileLock>>

(***************************************************************************)
(* The end of a transaction and the return of the call.                    *)
(***************************************************************************)
\* the reference model: one committed call applied to the sets of users who
\* checked each item
RefApply(ref, c) ==
    IF c.op = "AddCheck"
    THEN [ref EXCEPT ![String(c.ref)][c.key] = @ \cup {c.id}]
    ELSE IF c.op = "RemoveCheck"
    THEN [ref EXCEPT ![String(c.ref)][c.key] = @ \ {c.id}]
    ELSE ref

\* the last committed Add/RemoveCheck of each key, after call c committed
LastApply(last, c) ==
    IF c.op \in {"AddCheck", "RemoveCheck"}
    THEN [last EXCEPT ![String(c.ref)] =
              [op |-> c.op, key |-> c.key, id |-> c.id]]
    ELSE last

\* every GetChecks in progress notes the value now committed under its key,
\* every GetUsers in progress the users bucket now committed
Note(newdb) ==
    [q \in Procs |->
        IF call[q].op = "GetChecks" /\ pc[q] \in {"valid", "intx"}
        THEN seen[q] \cup {Get(newdb.checks, String(call[q].ref))}
        ELSE IF call[q].op = "GetUsers" /\ pc[q] \in {"valid", "intx"}
        THEN seen[q] \cup {newdb.users}
        ELSE seen[q]]

\* a commit that publishes nothing
CommittedNothing(p) == tx[p].snap

\* what tx.Commit() publishes: the transaction's pages
Committed(p) == tx[p].work

\* an end of db.Update that publishes the pages whatever happened
AfterUpdateNoRollback(p, ok) == tx[p].work

\* the committed buckets after the end of db.Update: the transaction's pages
\* when the closure returned nil and the commit went through (ok), else,
\* rolled back, what was committed before
AfterUpdate(p, ok) == IF ok THEN Committed(p) ELSE db

\* the end of db.Update: commit when the closure returned nil, else roll
\* back; either way the writer lock is released and the error returned
EndUpdate(p) ==
    /\ pc[p] = "fnret"
    /\ IsUpdate(call[p])
    /\ LET newdb == AfterUpdate(p, res[p].err = NoErr)
       IN /\ db' = newdb
          /\ seen' = Note(newdb)
          /\ res' = [res EXCEPT ![p].post = newdb, ![p].puts = tx[p].puts,
                                ![p].handle = /\ call[p].op = "NewBoltCore"
                                              /\ res[p].err = NoErr]
    /\ refdb' = IF res[p].err = NoErr THEN RefApply(refdb, call[p]) ELSE refdb
    /\ lastOn' = IF res[p].err = NoErr THEN LastApply(lastOn, call[p])
                  ELSE lastOn
    /\ lastUp' = IF res[p].err = NoErr /\ call[p].op = "AddUser"
                  THEN [lastUp EXCEPT ![call[p].user.ID] = call[p].user]
                  ELSE lastUp
    /\ writer' = "none"
    /\ tx' = [tx EXCEPT ![p] = NoTx]
    /\ pc' = [pc EXCEPT ![p] = "ret"]
    /\ UNCHANGED <<call, nCalls, fileLock>>

\* the caller has the result and is free to call again
Return(p) ==
    /\ pc[p] = "ret"
    /\ pc' = [pc EXCEPT ![p] = "idle"]
    /\ call' = [call EXCEPT ![p] = NoCall]
    /\ res' = [res EXCEPT ![p] = NoRes]
    /\ seen' = [seen EXCEPT ![p] = {}]
    /\ UNCHANGED <<db, writer, tx, nCalls, refdb, lastOn, lastUp, fileLock>>

Next ==
    \/ \E p \in Procs, user \in UpsertArgs : AddUserCall(p, user)
    \/ \E p \in Procs, userIDs \in IDLists : GetUsersCall(p, userIDs)
    \/ \E p \in Procs, clRef \in Refs : GetChecksCall(p, clRef)
    \/ \E p \in Procs, a \in CheckArgs : AddCheckCall(p, a[1], a[2], a[3])
    \/ \E p \in Procs, a \in CheckArgs : RemoveCheckCall(p, a[1], a[2], a[3])
    \/ \E p \in Procs : BeginUpdate(p)
    \/ \E p \in Procs : BeginView(p)
    \/ \E p \in Procs : AddUserBody(p)
    \/ \E p \in Procs : GetUsersBody(p)
    \/ \E p \in Procs : GetChecksBody(p)
    \/ \E p \in Procs : AddCheckBody(p)
    \/ \E p \in Procs : RemoveCheckBody(p)
    \/ \E p \in Procs : EndUpdate(p)
    \/ \E p \in Procs : Return(p)

Spec == Init /\ [][Next]_vars

(***************************************************************************)
(* Callers that never run out of calls, under fair scheduling.  A          *)
(* goroutine that can take its next step inside a call takes it; db.Update *)
(* waits on the engine's writer mutex, a sync.Mutex, which hands the lock  *)
(* to a goroutine that keeps waiting for it (starvation mode), so a writer *)
(* to which the lock is free again and again gets it.  Nothing makes a     *)
(* caller issue a call.                                                    *)
(***************************************************************************)
\* the arguments of the callers that never run out of calls
LiveUpsertArgs == {[ID |-> 1, Login |-> "x"]}
LiveIDLists == {<<1>>, <<12>>}
LiveRefs == {RefA, RefBad}
LiveCheckArgs == {<<RefA, "a", 1>>, <<RefBad, "a", 1>>}

InitLive ==
    /\ db = EmptyDB
    /\ writer = "none"
    /\ pc = [p \in Procs |-> "idle"]
    /\ call = [p \in Procs |-> NoCall]
    /\ tx = [p \in Procs |-> NoTx]
    /\ res = [p \in Procs |-> NoRes]
    /\ nCalls = -1
    /\ refdb = [k \in CheckKeys |-> [i \in ItemKeys |-> {}]]
    /\ seen = [p \in Procs |-> {}]
    /\ lastOn = [k \in CheckKeys |-> NoWrite]
    /\ lastUp = [id \in UserIDs |-> NoUser]
    /\ fileLock = "owner"

NextLive ==
    \/ \E p \in Procs, user \in LiveUpsertArgs : AddUserCall(p, user)
    \/ \E p \in Procs, userIDs \in LiveIDLists : GetUsersCall(p, userIDs)
    \/ \E p \in Procs, clRef \in LiveRefs : GetChecksCall(p, clRef)
    \/ \E p \in Procs, a \in LiveCheckArgs :
           AddCheckCall(p, a[1], a[2], a[3])
    \/ \E p \in Procs, a \in LiveCheckArgs :
           RemoveCheckCall(p, a[1], a[2], a[3])
    \/ \E p \in Procs : BeginUpdate(p)
    \/ \E p \in Procs : BeginView(p)
    \/ \E p \in Procs : AddUserBody(p)
    \/ \E p \in Procs : GetUsersBody(p)
    \/ \E p \in Procs : GetChecksBody(p)
    \/ \E p \in Procs : AddCheckBody(p)
    \/ \E p \in Procs : RemoveCheckBody(p)
    \/ \E p \in Procs : EndUpdate(p)
    \/ \E p \in Procs : Return(p)

\* the steps goroutine p takes inside db.Update / db.View once it is in
Runs(p) ==
    \/ BeginView(p)
    \/ AddUserBody(p)
    \/ GetUsersBody(p)
    \/ GetChecksBody(p)
    \/ AddCheckBody(p)
    \/ RemoveCheckBody(p)
    \/ EndUpdate(p)

Fairness ==
    \A p \in Procs : WF_vars(Runs(p)) /\ SF_vars(BeginUpdate(p))

SpecLive == InitLive /\ [][NextLive]_vars /\ Fairness

(***************************************************************************)
(* The store under faults: a file that already holds bytes that do not     *)
(* decode, and an engine whose Put and Commit may fail.                    *)
(***************************************************************************)
InitFault ==
    /\ \E data \in {NilBytes, BadBytes} :
           db = [EmptyDB EXCEPT !.checks[String(RefA)] = data]
    /\ writer = "none"
    /\ pc = [p \in Procs |-> "idle"]
    /\ call = [p \in Procs |-> NoCall]
    /\ tx = [p \in Procs |-> NoTx]
    /\ res = [p \in Procs |-> NoRes]
    /\ nCalls = 0
    /\ refdb = [k \in CheckKeys |-> [i \in ItemKeys |-> {}]]
    /\ seen = [p \in Procs |-> {}]
    /\ lastOn = [k \in CheckKeys |-> NoWrite]
    /\ lastUp = [id \in UserIDs |-> NoUser]
    /\ fileLock = "owner"

\* the closure reaches its Put
ReachesPut(p) ==
    \/ call[p].op = "AddUser"
    \/ /\ call[p].op \in {"AddCheck", "RemoveCheck"}
       /\ LET data == Get(UpdatePages(p).checks, String(call[p].ref))
          IN /\ data = NilBytes \/ UnmarshalOK(data)
             /\ IF call[p].op = "AddCheck"
                THEN ~AddReturnsEarly(Loaded(data), call[p].key, call[p].id)
                ELSE ~RemoveReturnsEarly(Loaded(data), call[p].key,
                                         call[p].id)

\* the closure of a write call whose Put returns an error: the pages are as
\* they were and the closure returns the error
PutFails(p) ==
    /\ pc[p] = "intx"
    /\ IsUpdate(call[p])
    /\ ReachesPut(p)
    /\ res' = [res EXCEPT ![p].err = Err("StoreUnavailable")]
    /\ pc' = [pc EXCEPT ![p] = "fnret"]
    /\ UNCHANGED <<db, writer, call, tx, nCalls, refdb, seen, lastOn, lastUp, fileLock>>

\* the end of db.Update when tx.Commit() fails: the transaction is rolled
\* back and the commit's error returned
CommitFails(p) ==
    /\ pc[p] = "fnret"
    /\ IsUpdate(call[p])
    /\ res[p].err = NoErr
    /\ LET newdb == AfterUpdate(p, FALSE)
       IN /\ db' = newdb
          /\ seen' = Note(newdb)
          /\ res' = [res EXCEPT ![p].err = Err("StoreUnavailable"),
                                ![p].post = newdb, ![p].puts = tx[p].puts]
    /\ writer' = "none"
    /\ tx' = [tx EXCEPT ![p] = NoTx]
    /\ pc' = [pc EXCEPT ![p] = "ret"]
    /\ UNCHANGED <<call, nCalls, refdb, lastOn, lastUp, fileLock>>

\* the arguments of the calls on the store under faults: one user record,
\* one userIDs slice with a stored and a missing identifier, two triples on
\* the reference whose entry may not decode, one on the invalid reference
FaultUpsertArgs == {[ID |-> 1, Login |-> "x"]}
FaultIDLists == {<<1, 12>>}
FaultRefs == {RefA, RefBad}
FaultCheckArgs == {<<RefA, "a", 1>>, <<RefA, "b", 12>>, <<RefBad, "a", 1>>}

NextFault ==
    \/ \E p \in Procs, user \in FaultUpsertArgs : AddUserCall(p, user)
    \/ \E p \in Procs, userIDs \in FaultIDLists : GetUsersCall(p, userIDs)
    \/ \E p \in Procs, clRef \in FaultRefs : GetChecksCall(p, clRef)
    \/ \E p \in Procs, a \in FaultCheckArgs :
           AddCheckCall(p, a[1], a[2], a[3])
    \/ \E p \in Procs, a \in FaultCheckArgs :
           RemoveCheckCall(p, a[1], a[2], a[3])
    \/ \E p \in Procs : BeginUpdate(p)
    \/ \E p \in Procs : BeginView(p)
    \/ \E p \in Procs : AddUserBody(p)
    \/ \E p \in Procs : GetUsersBody(p)
    \/ \E p \in Procs : GetChecksBody(p)
    \/ \E p \in Procs : AddCheckBody(p)
    \/ \E p \in Procs : RemoveCheckBody(p)
    \/ \E p \in Procs : EndUpdate(p)
    \/ \E p \in Procs : Return(p)
    \/ \E p \in Procs : PutFails(p)
    \/ \E p \in Procs : CommitFails(p)

SpecFault == InitFault /\ [][NextFault]_vars

(***************************************************************************)
(* NewBoltCore.  Processes open a store file that may or may not hold the  *)
(* buckets already.  bolt.Open takes the exclusive lock on the file, or    *)
(* gives up after Options.Timeout when another holder keeps it; the lock   *)
(* goes when the process that holds it ends.                               *)
(***************************************************************************)
\* the buckets of a store file that was used before
UsedUsers ==
    [k \in UserKeys |->
        IF k = UserKey(1) THEN MarshalUser([ID |-> 1, Login |-> "x"])
        ELSE NilBytes]
UsedChecks ==
    [k \in CheckKeys |->
        IF k = String(RefA)
        THEN MarshalChecks(Add(EmptyChecks, "a", 1))
        ELSE NilBytes]

\* the store files NewBoltCore is given: any of the two buckets present,
\* a present bucket empty or used
StoreFiles ==
    {f \in [buckets : SUBSET BucketNames,
            users : {EmptyDB.users, UsedUsers},
            checks : {EmptyDB.checks, UsedChecks}] :
        /\ "users" \notin f.buckets => f.users = EmptyDB.users
        /\ "checks" \notin f.buckets => f.checks = EmptyDB.checks}

\* a bucket creation that makes a new, empty bucket whatever is there
CreateBucket(pages, name) ==
    [pages EXCEPT !.buckets = @ \cup {name}, ![name] = EmptyDB[name]]

\* tx.CreateBucketIfNotExists(name): the bucket as it is when it exists,
\* else a new empty one
CreateBucketIfNotExists(pages, name) ==
    IF name \in pages.buckets
    THEN pages
    ELSE [pages EXCEPT !.buckets = @ \cup {name}, ![name] = EmptyDB[name]]

InitOpen ==
    /\ db \in StoreFiles
    /\ writer = "none"
    /\ pc = [p \in Procs |-> "idle"]
    /\ call = [p \in Procs |-> NoCall]
    /\ tx = [p \in Procs |-> NoTx]
    /\ res = [p \in Procs |-> NoRes]
    /\ nCalls = 0
    /\ refdb = [k \in CheckKeys |-> [i \in ItemKeys |-> {}]]
    /\ seen = [p \in Procs |-> {}]
    /\ lastOn = [k \in CheckKeys |-> NoWrite]
    /\ lastUp = [id \in UserIDs |-> NoUser]
    /\ fileLock = "none"

\* NewBoltCore up to the return of bolt.Open: the process has the file lock
\* when it was free and the open went through (ok), else bolt.Open returned
\* an error and NewBoltCore returns nil, err
NewBoltCoreCall(p, ok) ==
    /\ pc[p] = "idle"
    /\ nCalls < MaxCalls
    /\ nCalls' = Count(nCalls)
    /\ call' = [call EXCEPT ![p] = [op |-> "NewBoltCore"]]
    /\ IF fileLock = "none" /\ ok
       THEN /\ fileLock' = p
            /\ pc' = [pc EXCEPT ![p] = "valid"]
            /\ res' = [res EXCEPT ![p] = NoRes]
       ELSE /\ fileLock' = fileLock
            /\ pc' = [pc EXCEPT ![p] = "ret"]
            /\ res' = [res EXCEPT ![p] =
                           [NoRes EXCEPT !.err = Err("StoreUnavailable")]]
    /\ UNCHANGED <<db, writer, tx, refdb, seen, lastOn, lastUp>>

\* the closure of NewBoltCore
NewBoltCoreBody(p) ==
    /\ pc[p] = "intx"
    /\ call[p].op = "NewBoltCore"
    /\ tx' = [tx EXCEPT ![p].work =
                  CreateBucketIfNotExists(
                      CreateBucketIfNotExists(UpdatePages(p),
                                              "users"),
                      "checks")]
    /\ pc' = [pc EXCEPT ![p] = "fnret"]
    /\ UNCHANGED <<db, writer, call, res, nCalls, refdb, seen, lastOn, lastUp,
                   fileLock>>

\* the closure of NewBoltCore when a CreateBucketIfNotExists returns an
\* error: the first one (n = 1), or the second after the first went through
CreateFails(p, n) ==
    /\ pc[p] = "intx"
    /\ call[p].op = "NewBoltCore"
    /\ tx' = [tx EXCEPT ![p].work =
                  IF n = 1 THEN @ ELSE CreateBucketIfNotExists(@, "users")]
    /\ res' = [res EXCEPT ![p].err = Err("StoreUnavailable")]
    /\ pc' = [pc EXCEPT ![p] = "fnret"]
    /\ UNCHANGED <<db, writer, call, nCalls, refdb, seen, lastOn, lastUp,
                   fileLock>>

\* the process that holds the file lock ends (boltCoreRepository has no
\* Close): the lock is free again
Exit(p) ==
    /\ pc[p] = "idle"
    /\ fileLock = p
    /\ fileLock' = "none"
    /\ UNCHANGED <<db, writer, pc, call, tx, res, nCalls, refdb, seen, lastOn,
                   lastUp>>

NextOpen ==
    \/ \E p \in Procs, ok \in BOOLEAN : NewBoltCoreCall(p, ok)
    \/ \E p \in Procs : BeginUpdate(p)
    \/ \E p \in Procs : NewBoltCoreBody(p)
    \/ \E p \in Procs, n \in {1, 2} : CreateFails(p, n)
    \/ \E p \in Procs : EndUpdate(p)
    \/ \E p \in Procs : CommitFails(p)
    \/ \E p \in Procs : Return(p)
    \/ \E p \in Procs : Exit(p)

SpecOpen == InitOpen /\ [][NextOpen]_vars

(***************************************************************************)
(* Properties.                                                             *)
(***************************************************************************)
\* the users recorded under item key in the stored bytes data
CheckedBy(data, key) == Elems(Lookup(Loaded(data), key))

\* call c is an AddCheck / RemoveCheck on a valid reference
IsToggle(c) == c.op \in {"AddCheck", "RemoveCheck"} /\ Validate(c.ref)

\* the descriptor lastOn keeps of call c
Desc(c) == [op |-> c.op, key |-> c.key, id |-> c.id]

\* C1: no lost update.  Under any interleaving of AddCheck and RemoveCheck
\* calls, the committed CheckSet of every reference is the one the reference
\* model gets by applying the committed calls one at a time, in commit
\* order; in particular when all calls have returned.
C1_NoLostUpdate ==
    \A k \in CheckKeys, key \in ItemKeys :
        CheckedBy(db.checks[k], key) = refdb[k][key]

\* two overlapping calls on the same reference both changed its CheckSet
C1_Witness ==
    /\ pc["p1"] = "ret" /\ pc["p2"] = "ret"
    /\ IsToggle(call["p1"]) /\ IsToggle(call["p2"])
    /\ call["p1"].ref = call["p2"].ref
    /\ res["p1"].puts = 1 /\ res["p2"].puts = 1

\* the Checks value GetChecks returns for the stored bytes data
Fetched(data) ==
    IF data = NilBytes THEN NilChecks ELSE UnmarshalChecks(data)

\* C2: a GetChecks that runs concurrently with AddCheck / RemoveCheck calls
\* returns the decoding of a value that was committed under its key at some
\* moment of the call: the state before or after each of those calls, never
\* a value no committed state held.
C2_FetchSeesCommitted ==
    \A p \in Procs :
        (pc[p] = "ret" /\ call[p].op = "GetChecks" /\ Validate(call[p].ref))
            => \E data \in seen[p] : res[p].checks = Fetched(data)

\* a GetChecks returned while a writer had put, and not yet committed, a
\* new value under the same key
C2_Witness ==
    \E p \in Procs, q \in Procs :
        /\ pc[p] = "ret" /\ call[p].op = "GetChecks"
        /\ pc[q] = "fnret" /\ IsToggle(call[q]) /\ tx[q].puts = 1
        /\ call[q].ref = call[p].ref
        /\ res[p].checks # Fetched(tx[q].work.checks[String(call[q].ref)])

\* C3: idempotent add.  An AddCheck(R, K, U) that directly follows a
\* committed AddCheck(R, K, U) (no other Add/RemoveCheck on R in between)
\* succeeds, calls Put not once, and commits the buckets it found.
C3_IdempotentAdd ==
    \A p \in Procs :
        (/\ pc[p] = "ret" /\ call[p].op = "AddCheck" /\ Validate(call[p].ref)
         /\ res[p].prev = Desc(call[p]))
            => /\ res[p].err = NoErr
               /\ res[p].puts = 0
               /\ res[p].post = res[p].pre

\* the second of two AddCheck(R, K, U) in a row has returned
C3_Witness ==
    \E p \in Procs :
        /\ pc[p] = "ret" /\ call[p].op = "AddCheck" /\ Validate(call[p].ref)
        /\ res[p].prev = Desc(call[p])
        /\ call[p].id \in CheckedBy(db.checks[String(call[p].ref)], call[p].key)

\* C4: idempotent remove.  A RemoveCheck(R, K, U) that finds U not among
\* the users of K (also when R has no entry) succeeds, calls Put not once,
\* and leaves both buckets as it found them.
C4_IdempotentRemove ==
    \A p \in Procs :
        (/\ pc[p] = "ret" /\ call[p].op = "RemoveCheck"
         /\ Validate(call[p].ref)
         /\ call[p].id \notin
                CheckedBy(res[p].pre.checks[String(call[p].ref)], call[p].key))
            => /\ res[p].err = NoErr
               /\ res[p].puts = 0
               /\ res[p].post = res[p].pre

\* a RemoveCheck of a user who is not in the item returned, on a reference
\* that has an entry
C4_Witness ==
    \E p \in Procs :
        /\ pc[p] = "ret" /\ call[p].op = "RemoveCheck"
        /\ res[p].opened
        /\ res[p].pre.checks[String(call[p].ref)] # NilBytes
        /\ call[p].id \notin
               CheckedBy(res[p].pre.checks[String(call[p].ref)], call[p].key)

\* C5: round trip.  A GetChecks(R) whose snapshot directly follows a
\* committed AddCheck(R, K, U) returns a Checks in which K's list holds U;
\* one that directly follows a committed RemoveCheck(R, K, U) returns a
\* Checks in which K's list does not hold U.
C5_RoundTrip ==
    \A p \in Procs :
        (pc[p] = "ret" /\ call[p].op = "GetChecks" /\ Validate(call[p].ref))
            => /\ res[p].err = NoErr
               /\ res[p].prev.op = "AddCheck" =>
                      res[p].prev.id
                          \in Elems(Lookup(res[p].checks, res[p].prev.key))
               /\ res[p].prev.op = "RemoveCheck" =>
                      res[p].prev.id
                          \notin Elems(Lookup(res[p].checks, res[p].prev.key))

\* a GetChecks returned after an AddCheck and then a RemoveCheck of the same
\* triple that both changed the stored Checks
C5_Witness ==
    \E p \in Procs :
        /\ pc[p] = "ret" /\ call[p].op = "GetChecks"
        /\ res[p].prev.op = "RemoveCheck"
        /\ res[p].prev.key \in Keys(res[p].checks.m)
        /\ Lookup(res[p].checks, res[p].prev.key) = <<>>

\* GetUsers was asked for an identifier that has no record in its snapshot
SomeMissing(p) ==
    \E i \in 1..Len(call[p].ids) :
        Get(res[p].pre.users, UserKey(call[p].ids[i])) = NilBytes

\* C6: batch fetch is all-or-nothing.  A GetUsers asked for an identifier
\* without a stored record returns a NotFound error and a mapping that holds
\* no user record at all.
C6_AllOrNothing ==
    \A p \in Procs :
        (pc[p] = "ret" /\ call[p].op = "GetUsers" /\ SomeMissing(p))
            => /\ res[p].err.kind = "NotFound"
               /\ res[p].users = {}

\* C7: validation precedes storage.  The step by which GetChecks, AddCheck
\* or RemoveCheck is entered with a reference that fails validation returns
\* the InvalidReference error at once: no transaction is opened, the writer
\* lock is not taken, and both buckets are unchanged.
C7_ValidationFirst ==
    [][\A p \in Procs :
          (/\ pc[p] = "idle" /\ pc'[p] # "idle"
           /\ call'[p].op \in {"GetChecks", "AddCheck", "RemoveCheck"}
           /\ ~Validate(call'[p].ref))
              => /\ pc'[p] = "ret"
                 /\ res'[p].err = Err("InvalidReference")
                 /\ ~res'[p].opened
                 /\ db' = db /\ tx' = tx /\ writer' = writer]_vars

\* an AddCheck with an invalid reference returned its error while the
\* buckets held a record
C7_Witness ==
    \E p \in Procs :
        /\ pc[p] = "ret" /\ call[p].op = "AddCheck"
        /\ res[p].err = Err("InvalidReference")
        /\ db # EmptyDB

\* no item of the stored bytes data has a checked user
NobodyChecked(data) == \A key \in ItemKeys : CheckedBy(data, key) = {}

NoDuplicates(list) == Cardinality(Elems(list)) = Len(list)

\* C9: in every reachable state every list of every committed Checks holds
\* each user ID at most once.
C9_NoDuplicateUsers ==
    \A k \in CheckKeys :
        \A i \in 1..Len(db.checks[k].members) :
            NoDuplicates(db.checks[k].members[i][2])

\* an AddCheck of a user who is already in a list of two users returned
C9_Witness ==
    \E p \in Procs :
        /\ pc[p] = "ret" /\ call[p].op = "AddCheck" /\ res[p].opened
        /\ LET list == Lookup(Fetched(db.checks[String(call[p].ref)]),
                              call[p].key)
           IN /\ Len(list) = 2
              /\ call[p].id \in Elems(list)
              /\ res[p].puts = 0

\* C10: a failed write is atomic.  An AddCheck or RemoveCheck that finds
\* bytes that do not decode returns an error, and one that returns an error
\* from its write transaction (decode, Put or Commit failed) has released
\* the transaction and the writer lock and left both buckets as committed
\* before the call.
C10_FailedWriteAtomic ==
    \A p \in Procs :
        (/\ pc[p] = "ret" /\ call[p].op \in {"AddCheck", "RemoveCheck"}
         /\ res[p].opened)
            => /\ res[p].pre.checks[String(call[p].ref)] = BadBytes =>
                      res[p].err = Err("Corruption")
               /\ res[p].err # NoErr =>
                      /\ res[p].post = res[p].pre
                      /\ tx[p] = NoTx
                      /\ writer # p

\* an AddCheck whose Put went through and whose Commit failed returned its
\* error while the buckets held a record
C10_Witness ==
    \E p \in Procs :
        /\ pc[p] = "ret" /\ call[p].op = "AddCheck"
        /\ res[p].err = Err("StoreUnavailable")
        /\ res[p].puts = 1
        /\ res[p].pre # EmptyDB

\* C11: upsert is last-write-wins per identifier.  A returned AddUser(u) has
\* committed the encoding of u under the key of u's ID, whatever was there,
\* and left the records of all other IDs and the checks bucket as they were;
\* a GetUsers that succeeds returns for every ID the record last committed
\* for it when its snapshot was taken; and no committed step removes a user
\* record.
C11_UpsertLastWriteWins ==
    /\ [](\A p \in Procs :
            (pc[p] = "ret" /\ call[p].op = "AddUser")
                => /\ res[p].err = NoErr
                   /\ res[p].post.users[UserKey(call[p].user.ID)]
                          = MarshalUser(call[p].user)
                   /\ \A k \in UserKeys \ {UserKey(call[p].user.ID)} :
                          res[p].post.users[k] = res[p].pre.users[k]
                   /\ res[p].post.checks = res[p].pre.checks)
    /\ [](\A p \in Procs :
            (pc[p] = "ret" /\ call[p].op = "GetUsers" /\ res[p].err = NoErr)
                => \A i \in 1..Len(call[p].ids) :
                       <<call[p].ids[i], res[p].prevUsers[call[p].ids[i]]>>
                           \in res[p].users)
    /\ [][\A k \in UserKeys :
             db.users[k] # NilBytes => db'.users[k] # NilBytes]_vars

\* a GetUsers returned the second of two records upserted for one ID
C11_Witness ==
    \E p \in Procs :
        /\ pc[p] = "ret" /\ call[p].op = "GetUsers" /\ res[p].err = NoErr
        /\ <<1, [ID |-> 1, Login |-> "y"]>> \in res[p].users
        /\ lastOn = [k \in CheckKeys |-> NoWrite]
        /\ nCalls = 3

\* C12: a GetUsers whose snapshot holds a record for every requested ID
\* returns no error and the mapping that has exactly the distinct requested
\* IDs as keys, each with the record last committed for it; the result
\* depends on the set of the IDs only, not on their order or repetition.
C12_FetchUsersExact ==
    \A p \in Procs :
        (pc[p] = "ret" /\ call[p].op = "GetUsers" /\ ~SomeMissing(p))
            => /\ res[p].err = NoErr
               /\ res[p].users =
                      {<<id, res[p].prevUsers[id]>> : id \in Elems(call[p].ids)}

\* a GetUsers of two stored IDs, asked for in decreasing order, returned
C12_Witness ==
    \E p \in Procs :
        /\ pc[p] = "ret" /\ call[p].op = "GetUsers"
        /\ call[p].ids = <<12, 1>>
        /\ ~SomeMissing(p)
        /\ Cardinality(res[p].users) = 2

\* C13 as stated: what AddCheck / RemoveCheck return tells a call that was a
\* no-op from one that changed the stored Checks: the two reports differ.
C13_ReportTellsChange ==
    \A p \in Procs, q \in Procs :
        (/\ pc[p] = "ret" /\ IsToggle(call[p]) /\ res[p].puts = 0
         /\ pc[q] = "ret" /\ IsToggle(call[q]) /\ res[q].puts = 1)
            => res[p].err # res[q].err

\* C13 amended: AddCheck and RemoveCheck return an error value only, and it
\* is nil for the no-op call and for the call that changed the stored Checks
\* alike; that a call was a no-op (AddCheck of a user already in the item,
\* RemoveCheck of a user not in it) shows in its making no Put and
\* committing the buckets as it found them, not in what it returns.
C13_ReportIsErrorOnly ==
    \A p \in Procs :
        (pc[p] = "ret" /\ IsToggle(call[p]))
            => LET was == call[p].id \in
                              CheckedBy(res[p].pre.checks[String(call[p].ref)],
                                        call[p].key)
                   noop == IF call[p].op = "AddCheck" THEN was ELSE ~was
               IN /\ res[p].err = NoErr
                  /\ noop <=> res[p].puts = 0
                  /\ noop <=> res[p].post = res[p].pre

\* a no-op call and a call that changed the stored Checks have both
\* returned, with the same value
C13_Witness ==
    \E p \in Procs, q \in Procs :
        /\ pc[p] = "ret" /\ IsToggle(call[p]) /\ res[p].puts = 0
        /\ pc[q] = "ret" /\ IsToggle(call[q]) /\ res[q].puts = 1
        /\ res[p].err = res[q].err

\* C14: GetUsers reads a consistent snapshot.  Under any interleaving with
\* AddUser calls, the mapping and the error a GetUsers returns are those its
\* loop yields on one single users bucket that was committed at some moment
\* of the call.
C14_FetchUsersSnapshot ==
    \A p \in Procs :
        (pc[p] = "ret" /\ call[p].op = "GetUsers")
            => \E usersBucket \in seen[p] :
                  LET r == ScanUsers(usersBucket, call[p].ids, 1, {})
                  IN /\ res[p].users = r.users
                     /\ res[p].err = Wrap(r.err, "GetUsers")

\* a GetUsers of two IDs returned after two AddUser calls committed during
\* it, with the result of the bucket it began on
C14_Witness ==
    \E p \in Procs :
        /\ pc[p] = "ret" /\ call[p].op = "GetUsers"
        /\ Len(call[p].ids) = 2
        /\ Cardinality(seen[p]) = 3
        /\ res[p].users = {}

\* the triple (checks key k, item key, user id) is Checked in buckets d
Checked(d, k, key, id) == id \in Elems(Lookup(Fetched(d.checks[k]), key))

\* the step ends, without error, the db.Update of goroutine p
Commits(p) ==
    /\ pc[p] = "fnret" /\ pc'[p] = "ret"
    /\ IsUpdate(call[p])
    /\ res'[p].err = NoErr

\* C15: per-triple state machine with frame.  Every triple starts
\* Unchecked.  A step changes a triple's state only if it commits an
\* AddCheck of that very triple (Unchecked to Checked) or a RemoveCheck of
\* that very triple (Checked to Unchecked); the steps of every other call
\* leave it alone.  A step changes the users bucket only if it commits an
\* AddUser.
C15_TripleStateMachine ==
    /\ \A k \in CheckKeys, key \in ItemKeys, id \in UserIDs :
           ~Checked(db, k, key, id)
    /\ [][/\ \A k \in CheckKeys, key \in ItemKeys, id \in UserIDs :
               Checked(db', k, key, id) # Checked(db, k, key, id)
                   => \E p \in Procs :
                         /\ Commits(p)
                         /\ IsToggle(call[p])
                         /\ String(call[p].ref) = k
                         /\ call[p].key = key
                         /\ call[p].id = id
                         /\ call[p].op = "AddCheck"
                                <=> Checked(db', k, key, id)
          /\ db'.users # db.users
                 => \E p \in Procs : Commits(p) /\ call[p].op = "AddUser"]_vars

\* an AddCheck changed its triple and returned while another triple of the
\* same reference was, and stayed, Checked
C15_Witness ==
    \E p \in Procs, key \in ItemKeys, id \in UserIDs :
        /\ pc[p] = "ret" /\ call[p].op = "AddCheck" /\ res[p].puts = 1
        /\ <<key, id>> # <<call[p].key, call[p].id>>
        /\ Checked(res[p].pre, String(call[p].ref), key, id)
        /\ Checked(res[p].post, String(call[p].ref), key, id)

\* C16: lazy creation and no deletion of Checks entries.  No checks key has
\* an entry at the start; a step creates the entry of a key only if it
\* commits an AddCheck on that key that made a Put (so no GetChecks and no
\* RemoveCheck creates one); and a key that has an entry has one after every
\* step, also after a RemoveCheck that empties an item.
C16_LazyCreationNoDeletion ==
    /\ \A k \in CheckKeys : db.checks[k] = NilBytes
    /\ [][\A k \in CheckKeys :
             /\ (db.checks[k] = NilBytes /\ db'.checks[k] # NilBytes)
                    => \E p \in Procs :
                          /\ Commits(p)
                          /\ call[p].op = "AddCheck"
                          /\ String(call[p].ref) = k
                          /\ res'[p].puts = 1
             /\ db.checks[k] # NilBytes => db'.checks[k] # NilBytes]_vars

\* a RemoveCheck took the last user out of an entry and returned, and the
\* entry is still there
C16_Witness ==
    \E p \in Procs :
        /\ pc[p] = "ret" /\ call[p].op = "RemoveCheck" /\ res[p].puts = 1
        /\ res[p].post.checks[String(call[p].ref)] # NilBytes
        /\ NobodyChecked(res[p].post.checks[String(call[p].ref)])

\* C17: transaction scope.  A goroutine has a transaction open, and holds
\* the writer lock, only between the beginning and the end of the db.Update
\* or db.View of its call: none when db.Update / db.View has returned,
\* with or without error, and none in a call that failed validation; so
\* when no call is in progress no transaction is open and the writer lock
\* is free.
C17_TransactionScope ==
    /\ \A p \in Procs :
           /\ tx[p].open => pc[p] \in {"intx", "fnret"}
           /\ writer = p =>
                  /\ pc[p] \in {"intx", "fnret"}
                  /\ IsUpdate(call[p])
                  /\ tx[p].open
           /\ pc[p] = "ret" => ~tx[p].open /\ writer # p
    /\ writer \in Procs \cup {"none"}
    /\ (\A p \in Procs : pc[p] = "idle") =>
           /\ writer = "none"
           /\ \A p \in Procs : ~tx[p].open

\* a write call whose transaction was opened and ended in an error has
\* returned from db.Update, no other call is in progress, and the writer
\* lock is free
C17_Witness ==
    \E p \in Procs :
        /\ pc[p] = "ret" /\ IsUpdate(call[p])
        /\ res[p].opened /\ res[p].err # NoErr
        /\ \A q \in Procs \ {p} : pc[q] = "idle"
        /\ writer = "none"

\* C18: no operation blocks indefinitely.  Under fair scheduling every call
\* that was issued returns, the write calls that wait for the writer lock
\* while the other callers go on issuing write calls included; and a read
\* call that is about to begin its transaction can begin it at once,
\* whether or not a writable transaction is open.
C18_NoCallBlocks ==
    /\ [](\A p \in Procs :
             pc[p] = "valid" /\ IsView(call[p]) => ENABLED BeginView(p))
    /\ \A p \in Procs : (pc[p] # "idle") ~> (pc[p] = "ret")

\* a write call waits for the writer lock that another call holds after
\* an earlier write call committed, and a read call is about to begin while
\* a writable transaction is open
C18_Witness ==
    \E p \in Procs, q \in Procs :
        /\ pc[p] = "valid" /\ IsUpdate(call[p])
        /\ writer = q /\ q # p
        /\ lastUp[1] # NoUser /\ lastOn[String(RefA)] # NoWrite

\* C19: error propagation.  A call that has returned after a failure (an
\* invalid reference, a requested user without a record, stored bytes that
\* do not decode, a Put or Commit that failed) returns an error of that
\* kind, and every error a call returns carries the name of the operation
\* that failed.
C19_ErrorsCarryOperation ==
    \A p \in Procs :
        pc[p] = "ret" =>
            /\ (call[p].op \in {"GetChecks", "AddCheck", "RemoveCheck"}
                    /\ ~Validate(call[p].ref))
                   => res[p].err.kind = "InvalidReference"
            /\ (call[p].op = "GetUsers" /\ SomeMissing(p))
                   => res[p].err.kind = "NotFound"
            /\ (/\ call[p].op \in {"GetChecks", "AddCheck", "RemoveCheck"}
                /\ res[p].opened
                /\ res[p].pre.checks[String(call[p].ref)] = BadBytes)
                   => res[p].err.kind = "Corruption"
            /\ res[p].err # NoErr => res[p].err.op = call[p].op

\* C20: idempotent bootstrap.  A NewBoltCore that returns without error
\* returns a repository and has committed a file with both buckets; one
\* that returns an error returns no repository; a NewBoltCore on a file that
\* holds both buckets commits the file it found; and no step of any
\* NewBoltCore, failed or not, changes a key or value of the file or takes
\* a bucket away.
C20_IdempotentBootstrap ==
    /\ [](\A p \in Procs :
             (pc[p] = "ret" /\ call[p].op = "NewBoltCore") =>
                 /\ res[p].handle <=> res[p].err = NoErr
                 /\ res[p].err = NoErr =>
                        /\ res[p].post.buckets = BucketNames
                        /\ db.buckets = BucketNames
                 /\ (res[p].opened /\ res[p].pre.buckets = BucketNames)
                        => res[p].post = res[p].pre)
    /\ [][/\ db'.users = db.users
          /\ db'.checks = db.checks
          /\ db.buckets \subseteq db'.buckets]_vars

\* a NewBoltCore on a file whose two buckets hold records has returned a
\* repository, not being the first NewBoltCore on the file
C20_Witness ==
    \E p \in Procs :
        /\ pc[p] = "ret" /\ call[p].op = "NewBoltCore"
        /\ res[p].handle
        /\ nCalls >= 2
        /\ res[p].pre.users = UsedUsers /\ res[p].pre.checks = UsedChecks
        /\ res[p].post = res[p].pre

====
